---- MODULE Spec2Model ----
(***************************************************************************)
(* Model of app.py (BrandGenius): one Streamlit session running the script *)
(* top to bottom on every rerun.  Strings and byte strings are sequences   *)
(* of symbols; a literal chunk of the source is one symbol.                *)
(*                                                                         *)
(* A script run is Rerun (lines 11-172/187-192: session state, secrets,    *)
(* client, widgets, the empty-brief check) followed, when a generation was *)
(* requested, by ChatCall (the one chat-completion request and the rest of *)
(* the text branch) or by one Post per iteration of the retry loop (the    *)
(* last one carries the rest of the image branch).  Streamlit reports a    *)
(* button as pressed only in the rerun its click triggered, so the runs    *)
(* considered (Clicks) see at most one of do_text, do_img set.             *)
(***************************************************************************)
EXTENDS Integers, Sequences, FiniteSets, TLC

VARIABLES
    has_history,        \* "history" in st.session_state
    history,            \* st.session_state.history
    hist0,              \* ghost: the history when the current run started
    secrets,            \* keys present in st.secrets during the current run
    client,             \* "unset", "ok", or "undefined" (Groq(...) raised)
    pc,                 \* position of the current script run
    do_text, do_img,    \* button values of the current run
    brand_context,      \* text extracted from the uploaded PDF ("" if none)
    visual_style_desc,  \* style description ("" if no moodboard uploaded)
    user_prompt,        \* campaign brief
    attempt,            \* loop variable of generate_image_huggingface
    payload,            \* payload built by generate_image_huggingface
    res,                \* result of generate_brand_aware_copy
    image_bytes,        \* result of generate_image_huggingface
    events,             \* outbound requests and sleeps of the current run
    ui,                 \* what the current run displayed
    cp_pc, cp_prompt, cp_context, cp_client, cp_resp, cp_out
                        \* a call of generate_brand_aware_copy on its own

appvars == <<has_history, history, hist0, secrets, client, pc, do_text, do_img,
             brand_context, visual_style_desc, user_prompt, attempt, payload,
             res, image_bytes, events, ui>>
cpvars == <<cp_pc, cp_prompt, cp_context, cp_client, cp_resp, cp_out>>
vars == <<appvars, cpvars>>

----------------------------------------------------------------------------
(* Bounds *)

MaxHistory == 2
MaxPromptLen == 1
MaxOver == 1

(* Program constants *)

TruncLimit == 10000
MaxAttempts == 3
SleepSecs == 4

----------------------------------------------------------------------------
(* Values *)

Min(a, b) == IF a < b THEN a ELSE b

RECURSIVE SeqsUpTo(_, _)
SeqsUpTo(S, n) ==
    IF n = 0 THEN {<< >>}
    ELSE LET shorter == SeqsUpTo(S, n - 1)
         IN  shorter \cup {Append(s, c) : s \in {t \in shorter : Len(t) = n - 1}, c \in S}

None == [none |-> TRUE, val |-> << >>]
Some(v) == [none |-> FALSE, val |-> v]

AllSecrets == {"GROQ_API_KEY", "HF_API_TOKEN"}
Prompts == SeqsUpTo({"p"}, MaxPromptLen)
Styles == {<< >>, <<"Minimalist, High Contrast, Luxury">>}
Times == {"09:00", "09:01"}

\* an uploaded PDF: unreadable, or a sequence of page texts
Pdfs == {[ok |-> FALSE, err |-> <<"EOF marker not found">>, pages |-> << >>],
         [ok |-> TRUE, err |-> << >>, pages |-> <<<<"g">>, <<"h">>>>]}
Uploads == {None} \cup {Some(f) : f \in Pdfs}

\* answers of the chat-completion service: a completion, or an exception
ChatResponses == {[raised |-> FALSE, content |-> <<"copy">>, err |-> << >>],
                  [raised |-> TRUE, content |-> << >>, err |-> <<"rate limit">>]}

\* answers of the image API: an exception, or a status code and a body
ImageResponses ==
    {[raised |-> TRUE, status_code |-> 0, content |-> << >>]}
    \cup {[raised |-> FALSE, status_code |-> 200, content |-> b] :
              b \in {<< >>, <<"PNG">>, <<"junk">>}}
    \cup {[raised |-> FALSE, status_code |-> s, content |-> <<"{error}">>] :
              s \in {503, 500}}

Clicks == {<<FALSE, FALSE>>, <<TRUE, FALSE>>, <<FALSE, TRUE>>}

Truthy(s) == Len(s) > 0

----------------------------------------------------------------------------
(* Helper functions of the script *)

RECURSIVE PagesText(_)
PagesText(pages) ==
    IF pages = << >> THEN << >>
    ELSE Head(pages) \o <<"\n">> \o PagesText(Tail(pages))

\* lines 43-51
extract_text_from_pdf(uploaded_file) ==
    IF uploaded_file.ok THEN PagesText(uploaded_file.pages)
    ELSE <<"Error reading PDF: ">> \o uploaded_file.err

\* variant: the slice keeps one character too many
ExcerptOneMore(context_text) ==
    SubSeq(context_text, 1, Min(TruncLimit + 1, Len(context_text)))

\* context_text[:10000]
Excerpt(context_text) == SubSeq(context_text, 1, Min(TruncLimit, Len(context_text)))

\* lines 62-80: the template around the excerpt
TemplateHead == "You are a Senior Brand Strategist. ... --- BRAND GUIDELINES ---"
TemplateTail == "------------------------ ... Just write the asset."

system_instruction(context_text) ==
    <<TemplateHead>> \o Excerpt(context_text) \o <<TemplateTail>>

ChatRequest(simple_prompt, context_text, resp) ==
    [api |-> "chat",
     body |-> [system |-> system_instruction(context_text), user |-> simple_prompt],
     raised |-> resp.raised, status_code |-> 0, content |-> resp.content]

\* lines 82-94: the value returned for the answer resp of the service
CopyResult(resp) ==
    IF resp.raised THEN <<"Error: ">> \o resp.err ELSE resp.content

\* lines 55-94; with the client undefined the lookup of `client` raises inside
\* the try block before any request is made
generate_brand_aware_copy(simple_prompt, context_text, cl, resp) ==
    IF cl = "ok"
    THEN [requests |-> <<ChatRequest(simple_prompt, context_text, resp)>>,
          result |-> CopyResult(resp)]
    ELSE [requests |-> << >>,
          result |-> <<"Error: ">> \o <<"name 'client' is not defined">>]

\* line 103
quality_modifiers ==
    "award winning, professional commercial photography, 8k resolution, highly detailed, dramatic lighting"

\* variant: an empty style description is left out together with its separator
enhanced_promptSkipEmptyStyle(simple_prompt, style_context) ==
    IF style_context = << >>
    THEN simple_prompt \o <<", ">> \o <<quality_modifiers>>
    ELSE simple_prompt \o <<", ">> \o style_context \o <<", ">> \o <<quality_modifiers>>

\* line 108
enhanced_prompt(simple_prompt, style_context) ==
    simple_prompt \o <<", ">> \o style_context \o <<", ">> \o <<quality_modifiers>>

\* variant: every status other than 200 is retried
StatusActionRetryErrors(resp) ==
    IF resp.raised THEN "return_none"
    ELSE IF resp.status_code = 200 THEN "return_content"
    ELSE "retry"

\* lines 113-123: what one iteration does with the answer to its POST
StatusAction(resp) ==
    IF resp.raised THEN "return_none"
    ELSE IF resp.status_code = 200 THEN "return_content"
    ELSE IF resp.status_code = 503 THEN "retry"
    ELSE "return_none"

\* variant: the loop runs once more
LoopContinuesOneMore(a) == a + 1 <= MaxAttempts

\* line 112: range(3) has another value after attempt a
LoopContinues(a) == a + 1 < MaxAttempts

\* variant: only the first secret is checked
SecretsMissingGroqOnly(sec) == "GROQ_API_KEY" \notin sec

\* lines 20-30: the run stops unless both secrets are present
SecretsMissing(sec) == "GROQ_API_KEY" \notin sec \/ "HF_API_TOKEN" \notin sec

\* variant: the list is reset on every run
SessionInitAlways(has, h) == << >>

\* lines 14-15
SessionInit(has, h) == IF has THEN h ELSE << >>

\* line 196: PIL identifies the bytes as an image
ImageOpens(bytes) == Len(bytes) > 0 /\ bytes[1] = "PNG"

\* variant: the brief is never checked
BriefMissingNever(prompt) == FALSE

\* lines 169-172, 187-190
BriefMissing(prompt) == ~Truthy(prompt)

\* line 174
final_context(ctx) == IF Truthy(ctx) THEN ctx ELSE <<"General professional tone.">>

\* lines 180-185: the text branch appends whatever generate_brand_aware_copy returned
TextRecords(prompt, result, t) ==
    <<[type |-> "text", prompt |-> prompt, content |-> result, time |-> t]>>

\* lines 199-204
ImageRecords(prompt, bytes, t) ==
    <<[type |-> "image", prompt |-> prompt, content |-> bytes, time |-> t]>>

Show(widget, body) == [widget |-> widget, body |-> body]

PostEvent(pl, resp) ==
    [api |-> "image", body |-> pl, raised |-> resp.raised,
     status_code |-> resp.status_code, content |-> resp.content]

SleepEvent(secs) ==
    [api |-> "sleep", body |-> [secs |-> secs], raised |-> FALSE,
     status_code |-> 0, content |-> << >>]

\* variant: the retry does not wait
RetryPauseNone(act) == << >>

\* lines 117-119: time.sleep(4) before the next iteration
RetryPause(act) == IF act = "retry" THEN <<SleepEvent(SleepSecs)>> ELSE << >>

\* lines 116, 121, 123, 124: the value the call returns when it stops
ReturnValue(act, resp) == IF act = "return_content" THEN Some(resp.content) ELSE None

----------------------------------------------------------------------------
(* The session *)

CopyIdle ==
    /\ cp_pc = "off"
    /\ cp_prompt = << >>
    /\ cp_context = << >>
    /\ cp_client = "unset"
    /\ cp_resp = [raised |-> FALSE, content |-> << >>, err |-> << >>]
    /\ cp_out = [requests |-> << >>, result |-> << >>]

Finished == pc \in {"idle", "done", "stopped", "crashed"}

AppIdle ==
    /\ has_history = FALSE
    /\ history = << >>
    /\ hist0 = << >>
    /\ secrets = {}
    /\ client = "unset"
    /\ pc = "idle"
    /\ do_text = FALSE
    /\ do_img = FALSE
    /\ brand_context = << >>
    /\ visual_style_desc = << >>
    /\ user_prompt = << >>
    /\ attempt = 0
    /\ payload = [inputs |-> << >>]
    /\ res = None
    /\ image_bytes = None
    /\ events = << >>
    /\ ui = << >>

Init == AppIdle /\ CopyIdle

\* lines 11-30: a run that finds a secret missing stops before the client,
\* the widgets and the generation logic
Halt(sec) ==
    /\ pc' = "stopped"
    /\ client' = "unset"
    /\ ui' = <<Show("error",
                    IF "GROQ_API_KEY" \notin sec
                    THEN <<"Missing GROQ_API_KEY in Streamlit Secrets!">>
                    ELSE <<"Missing HF_API_TOKEN in Streamlit Secrets!">>)>>
    /\ brand_context' = << >>
    /\ visual_style_desc' = << >>
    /\ user_prompt' = << >>
    /\ payload' = [inputs |-> << >>]

\* lines 32-192: client setup, widgets, and the generation logic up to the
\* first outbound request
Proceed(cl, upload, style, prompt, click) ==
    /\ client' = cl
    /\ brand_context' = IF upload.none THEN << >> ELSE extract_text_from_pdf(upload.val)
    /\ visual_style_desc' = style
    /\ user_prompt' = prompt
    /\ IF click[1] /\ ~BriefMissing(prompt)
       THEN \* `if do_text:` reaches the chat call; `if do_img:` follows it
            /\ ui' = << >>
            /\ pc' = "chat"
       ELSE /\ ui' = (IF click[1]
                      THEN <<Show("warning", <<"Please enter a brief.">>)>> ELSE << >>)
                     \o (IF click[2] /\ BriefMissing(prompt)
                         THEN <<Show("warning", <<"Please enter a brief.">>)>> ELSE << >>)
            /\ pc' = IF click[2] /\ ~BriefMissing(prompt) THEN "post" ELSE "done"
    /\ payload' = IF click[2] /\ ~BriefMissing(prompt)
                  THEN [inputs |-> enhanced_prompt(prompt, style)]
                  ELSE [inputs |-> << >>]

Rerun ==
    /\ Finished
    /\ Len(history) < MaxHistory
    /\ \E sec \in SUBSET AllSecrets, click \in Clicks :
          /\ has_history' = TRUE
          /\ history' = SessionInit(has_history, history)
          /\ hist0' = SessionInit(has_history, history)
          /\ secrets' = sec
          /\ do_text' = click[1]
          /\ do_img' = click[2]
          /\ attempt' = 0
          /\ res' = None
          /\ image_bytes' = None
          /\ events' = << >>
          /\ IF SecretsMissing(sec)
             THEN Halt(sec)
             ELSE \E cl \in {"ok", "undefined"}, upload \in Uploads,
                     style \in Styles, prompt \in Prompts :
                     Proceed(cl, upload, style, prompt, click)
    /\ UNCHANGED cpvars

\* lines 173-185: the text branch
ChatCall ==
    /\ pc = "chat"
    /\ \E resp \in ChatResponses, t \in Times :
          LET out == generate_brand_aware_copy(user_prompt, final_context(brand_context),
                                               client, resp)
          IN  /\ events' = events \o out.requests
              /\ res' = Some(out.result)
              /\ ui' = ui \o <<Show("markdown", <<"### Strategic Copy">>),
                               Show("markdown", out.result)>>
              /\ history' = history \o TextRecords(user_prompt, out.result, t)
    /\ pc' = IF do_img THEN "post" ELSE "done"
    /\ UNCHANGED <<has_history, hist0, secrets, client, do_text, do_img, brand_context,
                   visual_style_desc, user_prompt, attempt, payload, image_bytes>>
    /\ UNCHANGED cpvars

\* lines 194-206: the image branch once generate_image_huggingface returned ret
AfterImage(ret, t) ==
    /\ image_bytes' = ret
    /\ IF ~ret.none /\ Truthy(ret.val)
       THEN IF ImageOpens(ret.val)
            THEN /\ ui' = ui \o <<Show("markdown", <<"### Campaign Visual">>),
                                  Show("image", ret.val)>>
                 /\ history' = history \o ImageRecords(user_prompt, ret.val, t)
                 /\ pc' = "done"
            ELSE \* Image.open raises outside any try block
                 /\ ui' = ui \o <<Show("markdown", <<"### Campaign Visual">>)>>
                 /\ history' = history
                 /\ pc' = "crashed"
       ELSE /\ ui' = ui \o <<Show("error", <<"Generation failed. Try again.">>)>>
            /\ history' = history
            /\ pc' = "done"

\* lines 112-124: one iteration of the retry loop, and what follows when it
\* was the last one
Post ==
    /\ pc = "post"
    /\ \E resp \in ImageResponses, t \in Times :
          LET act == StatusAction(resp)
          IN  /\ events' = events \o <<PostEvent(payload, resp)>>
                              \o RetryPause(act)
              /\ IF act = "retry" /\ LoopContinues(attempt)
                 THEN /\ attempt' = attempt + 1
                      /\ UNCHANGED <<pc, image_bytes, ui, history>>
                 ELSE /\ attempt' = attempt
                      /\ AfterImage(ReturnValue(act, resp), t)
    /\ UNCHANGED <<has_history, hist0, secrets, client, do_text, do_img, brand_context,
                   visual_style_desc, user_prompt, payload, res>>
    /\ UNCHANGED cpvars

Next == Rerun \/ ChatCall \/ Post

Spec == Init /\ [][Next]_vars

----------------------------------------------------------------------------
(* generate_brand_aware_copy on its own, on guidelines around the limit *)

Alphabet == <<"a", "b", "c">>

Guideline(n, k) == [i \in 1..n |-> Alphabet[((i * k) % 3) + 1]]

GuidelineLengths == {0, 1, 2} \cup ((TruncLimit - 1) .. (TruncLimit + MaxOver))

Contexts == {Guideline(n, k) : n \in GuidelineLengths, k \in 1..3}

CopyInit ==
    /\ AppIdle
    /\ cp_pc = "ready"
    /\ cp_prompt \in Prompts
    /\ cp_context \in Contexts
    /\ cp_client = "unset"
    /\ cp_resp = [raised |-> FALSE, content |-> << >>, err |-> << >>]
    /\ cp_out = [requests |-> << >>, result |-> << >>]

CopyCall ==
    /\ cp_pc = "ready"
    /\ \E cl \in {"ok", "undefined"}, resp \in ChatResponses :
          /\ cp_client' = cl
          /\ cp_resp' = resp
          /\ cp_out' = generate_brand_aware_copy(cp_prompt, cp_context, cl, resp)
    /\ cp_pc' = "called"
    /\ UNCHANGED <<cp_prompt, cp_context>>
    /\ UNCHANGED appvars

CopyAgain ==
    /\ cp_pc = "called"
    /\ cp_pc' = "ready"
    /\ cp_prompt' \in Prompts
    /\ cp_context' \in Contexts
    /\ cp_client' = "unset"
    /\ cp_resp' = [raised |-> FALSE, content |-> << >>, err |-> << >>]
    /\ cp_out' = [requests |-> << >>, result |-> << >>]
    /\ UNCHANGED appvars

CopyNext == CopyCall \/ CopyAgain

SpecCopy == CopyInit /\ [][CopyNext]_vars

----------------------------------------------------------------------------
(* Properties *)

IsRequest(e) == e.api # "sleep"
IsPost(e) == e.api = "image"
IsChat(e) == e.api = "chat"

Requests == SelectSeq(events, IsRequest)
Posts == SelectSeq(events, IsPost)
Chats == SelectSeq(events, IsChat)

Is503(e) == e.api = "image" /\ ~e.raised /\ e.status_code = 503
Is200(e) == e.api = "image" /\ ~e.raised /\ e.status_code = 200

IsPrefix(s, t) == Len(s) <= Len(t) /\ SubSeq(t, 1, Len(s)) = s

Warning == [widget |-> "warning", body |-> <<"Please enter a brief.">>]

\* C1: when every POST of a call is answered with 503, exactly 3 POSTs are
\* made, never a 4th, and the call gives up returning None.
C1_Retry503 ==
    /\ Len(Posts) <= 3
    /\ (/\ pc # "post"
        /\ Posts # << >>
        /\ \A i \in 1..Len(Posts) : Is503(Posts[i]))
       => /\ Len(Posts) = 3
          /\ image_bytes = None
          /\ pc = "done"

C1_Witness ==
    /\ pc = "done"
    /\ Len(Posts) = 3
    /\ \A i \in 1..3 : Is503(Posts[i])
    /\ image_bytes = None

\* C2: within one click a second outbound request is made only after an image
\* POST answered with 503; the chat-completion call is made at most once, and
\* a POST answered otherwise, or raising, is never followed by another POST.
C2_OnlyRetry503 ==
    /\ \A i \in 2..Len(Requests) : Is503(Requests[i - 1])
    /\ Len(Chats) <= 1
    /\ \A i \in 1..Len(Posts) : ~Is503(Posts[i]) => i = Len(Posts)

C2_Witness ==
    /\ pc = "done"
    /\ Len(Requests) = 2
    /\ Is503(Requests[1])
    /\ Requests[2].api = "image"
    /\ Requests[2].status_code = 500

\* C3: every failure during a generation click is caught: a failing chat call
\* yields "Error: ...", a POST that raises or is answered with a status other
\* than 200 and 503 yields None, and no exception escapes the click, whatever
\* the API answers.
C3_AllFailuresCaught ==
    /\ pc # "crashed"
    /\ (pc = "done" /\ Chats # << >> /\ Chats[1].raised)
       => (~res.none /\ Len(res.val) > 0 /\ res.val[1] = "Error: ")
    /\ (pc = "done" /\ Posts # << >>
        /\ (Posts[Len(Posts)].raised \/ Posts[Len(Posts)].status_code \notin {200, 503}))
       => image_bytes = None

\* C4: the history is append-only: every step leaves the old history a prefix
\* of the new one, and the list is set to empty only when the session had no
\* history yet.
C4_AppendOnly ==
    [][/\ IsPrefix(history, history')
       /\ has_history => has_history'
       /\ (~has_history /\ has_history') => history' = << >>]_vars

C4_Witness ==
    /\ pc = "done"
    /\ has_history
    /\ Len(history) >= 2
    /\ history[1].type = "text"
    /\ history[2].type = "image"

ErrorString(r) == ~r.none /\ Len(r.val) > 0 /\ r.val[1] = "Error: "

\* C5: a record is appended only on successful generation: a text click whose
\* chat call fails and an image click whose generation returns nothing append
\* no record; a successful click appends exactly one record with the matching
\* kind tag, the prompt and the generated content.
C5_AppendOnlyOnSuccess ==
    pc = "done" =>
       /\ (do_text /\ ErrorString(res)) => history = hist0
       /\ (do_img /\ (image_bytes.none \/ image_bytes.val = << >>)) => history = hist0
       /\ (do_text /\ ~res.none /\ ~ErrorString(res))
          => /\ Len(history) = Len(hist0) + 1
             /\ IsPrefix(hist0, history)
             /\ history[Len(history)].type = "text"
             /\ history[Len(history)].prompt = user_prompt
             /\ history[Len(history)].content = res.val
       /\ (do_img /\ ~image_bytes.none /\ image_bytes.val # << >>)
          => /\ Len(history) = Len(hist0) + 1
             /\ IsPrefix(hist0, history)
             /\ history[Len(history)].type = "image"
             /\ history[Len(history)].prompt = user_prompt
             /\ history[Len(history)].content = image_bytes.val

\* C6: a run that finds GROQ_API_KEY or HF_API_TOKEN missing stops before the
\* client is created, makes no outbound request and appends no record,
\* whatever was clicked; a run with both secrets present is not halted.
C6_MissingSecretsHalt ==
    pc # "idle" =>
       /\ secrets # AllSecrets
          => /\ pc = "stopped"
             /\ client = "unset"
             /\ events = << >>
             /\ history = hist0
       /\ secrets = AllSecrets => pc # "stopped"

C6_Witness ==
    /\ pc = "stopped"
    /\ secrets = {"GROQ_API_KEY"}
    /\ do_img
    /\ Len(history) >= 1

\* C7: every POST of a call carries the payload {"inputs": "<user prompt>,
\* <style description>, <quality keywords>"}, with an empty style description
\* when none is given, identical on every attempt.
C7_Payload ==
    \A i \in 1..Len(Posts) :
       LET e == Posts[i].body.inputs
           n == Len(user_prompt)
           m == Len(visual_style_desc)
       IN  /\ DOMAIN Posts[i].body = {"inputs"}
           /\ Len(e) = n + m + 3
           /\ SubSeq(e, 1, n) = user_prompt
           /\ e[n + 1] = ", "
           /\ SubSeq(e, n + 2, n + 1 + m) = visual_style_desc
           /\ e[n + m + 2] = ", "
           /\ e[n + m + 3] = quality_modifiers
           /\ Posts[i].body = Posts[1].body

C7_Witness ==
    /\ Len(Posts) = 3
    /\ visual_style_desc = << >>
    /\ user_prompt # << >>

\* C8: the system instruction holds exactly the first min(len, 10000)
\* characters of the guidelines between the two parts of the template, the
\* user message is the prompt unchanged, and the function returns the
\* service's content verbatim, or the error string on failure.
C8_SystemInstruction ==
    cp_pc = "called" =>
       /\ cp_client = "ok"
          => /\ Len(cp_out.requests) = 1
             /\ LET sys == cp_out.requests[1].body.system
                    n == IF Len(cp_context) < 10000 THEN Len(cp_context) ELSE 10000
                IN  /\ Len(sys) = n + 2
                    /\ sys[1] = TemplateHead
                    /\ \A i \in 1..n : sys[i + 1] = cp_context[i]
                    /\ sys[n + 2] = TemplateTail
             /\ cp_out.requests[1].body.user = cp_prompt
             /\ cp_out.result = IF cp_resp.raised THEN <<"Error: ">> \o cp_resp.err
                                ELSE cp_resp.content
       /\ cp_client # "ok"
          => /\ cp_out.requests = << >>
             /\ cp_out.result[1] = "Error: "

C8_Witness ==
    /\ cp_pc = "called"
    /\ cp_client = "ok"
    /\ Len(cp_context) > 10000
    /\ Len(cp_out.requests[1].body.system) = 10002
    /\ ~cp_resp.raised

\* C9: if the k-th POST is the first answered with 200 and the earlier ones
\* were answered with 503, the call makes exactly k POSTs, sleeps 4 seconds
\* between consecutive POSTs and returns the body of the 200 answer; a call
\* is over after at most 3 POSTs whatever the answers.
C9_SuccessAfterRetries ==
    /\ pc = "post" => Len(Posts) = attempt /\ attempt < 3
    /\ Len(Posts) = 3 => pc # "post"
    /\ \A k \in 1..3 :
          (/\ Len(Posts) >= k
           /\ Is200(Posts[k])
           /\ \A j \in 1..(k - 1) : Is503(Posts[j]))
          => /\ pc # "post"
             /\ Len(Posts) = k
             /\ Len(events) = 2 * k - 1
             /\ \A j \in 1..(k - 1) :
                   /\ events[2 * j - 1].api = "image"
                   /\ events[2 * j].api = "sleep"
                   /\ events[2 * j].body.secs = 4
             /\ events[2 * k - 1] = Posts[k]
             /\ image_bytes = Some(Posts[k].content)

C9_Witness ==
    /\ pc = "done"
    /\ Len(Posts) = 3
    /\ Is503(Posts[1])
    /\ Is503(Posts[2])
    /\ Is200(Posts[3])
    /\ image_bytes = Some(<<"PNG">>)
    /\ history # hist0

====
